---- MODULE Spec2Model ----
(***************************************************************************)
(* Model of the manifest_fetch data source of terraform-provider-manifest  *)
(* (internal/provider/data_source_fetch.go): fetchDataSource.Read and its  *)
(* helpers parseTfList, contains, unmarshalAllManifests, removeAttribute.  *)
(*                                                                         *)
(* A decoded YAML value is a record [t, s, m]: t is the dynamic type of    *)
(* the Go interface value ("nil", "str", "int", "map"), s the text of a    *)
(* scalar and m the entries of a nested map[any]any.  A manifest is a      *)
(* function from keys to such values.  A string that Read splits on "."    *)
(* is a sequence of chunks, the chunk "." being the separator character.   *)
(***************************************************************************)
EXTENDS Integers, Sequences, FiniteSets, TLC

VARIABLES pc, url, filteredAttributes, onlyResources, cancelled, statusCode,
          stream, decodeErr, filterableManifests, ti, tj, manifests, diags, state

vars == <<pc, url, filteredAttributes, onlyResources, cancelled, statusCode,
          stream, decodeErr, filterableManifests, ti, tj, manifests, diags, state>>

(* ---------------------------- bounds ----------------------------------- *)

MaxDocs == 2

MaxAttrs == 2

(* ---------------------------- values ----------------------------------- *)

EmptyMap == [k \in {} |-> ""]

Nil == [t |-> "nil", s |-> "", m |-> EmptyMap]

Str(v) == [t |-> "str", s |-> v, m |-> EmptyMap]

IntVal(v) == [t |-> "int", s |-> v, m |-> EmptyMap]

Map(f) == [t |-> "map", s |-> "", m |-> f]

\* manifest[key] of a Go map: the zero value (nil interface) when absent
Lookup(manifest, key) == IF key \in DOMAIN manifest THEN manifest[key] ELSE Nil

\* every key of the documents below, in the order Go and yaml.v2 sort them
KeyOrder == <<"annotations", "apiVersion", "creationTimestamp", "hello",
              "kind", "metadata", "some", "spec", "status">>

SortedKeys(manifest) == SelectSeq(KeyOrder, LAMBDA k : k \in DOMAIN manifest)

(* ------------------------- fmt.Sprintf --------------------------------- *)

RECURSIVE FormatEntries(_, _)
RECURSIVE FormatS(_)

\* the entries of a map under %s: "k:v k:v", keys sorted
FormatEntries(f, keys) ==
    IF keys = <<>> THEN ""
    ELSE Head(keys) \o ":" \o FormatS(f[Head(keys)])
         \o (IF Len(keys) > 1 THEN " " ELSE "")
         \o FormatEntries(f, Tail(keys))

\* the verb %v, which prints a nil interface as <nil>
FormatV(v) ==
    CASE v.t = "nil" -> "<nil>"
      [] v.t = "str" -> v.s
      [] v.t = "int" -> v.s
      [] OTHER       -> "map[" \o FormatEntries(v.m, SortedKeys(v.m)) \o "]"

\* the verb %s applied to an interface value: a string prints as itself,
\* every operand that is not a string is a bad verb, %!s(...)
FormatS(v) ==
    CASE v.t = "nil" -> "%!s(<nil>)"
      [] v.t = "str" -> v.s
      [] v.t = "int" -> "%!s(int=" \o v.s \o ")"
      [] OTHER       -> "map[" \o FormatEntries(v.m, SortedKeys(v.m)) \o "]"

\* fmt.Sprintf("%s/%s", manifest["kind"], manifest["apiVersion"])
TypeIdentitySwapped(manifest) ==
    FormatS(Lookup(manifest, "kind")) \o "/" \o FormatS(Lookup(manifest, "apiVersion"))

\* fmt.Sprintf("%s/%s", manifest["apiVersion"], manifest["kind"])
TypeIdentity(manifest) ==
    FormatS(Lookup(manifest, "apiVersion")) \o "/" \o FormatS(Lookup(manifest, "kind"))

(* --------------------------- yaml.Marshal ------------------------------ *)

\* strings the encoder double-quotes because they would resolve to another type
NeedsQuotes(text) == text \in {"", "null", "true", "false", "1", "~"}

ScalarText(v) ==
    CASE v.t = "nil" -> "null"
      [] v.t = "str" -> IF NeedsQuotes(v.s) THEN "\"" \o v.s \o "\"" ELSE v.s
      [] OTHER       -> v.s

RECURSIVE MarshalEntries(_, _, _)

\* block-style mapping, one "key: value" line per entry, nested maps indented
MarshalEntries(f, keys, indent) ==
    IF keys = <<>> THEN ""
    ELSE LET k == Head(keys)
             v == f[k]
         IN  indent \o k \o ":"
             \o (IF v.t = "map"
                 THEN IF DOMAIN v.m = {} THEN " {}\n"
                      ELSE "\n" \o MarshalEntries(v.m, SortedKeys(v.m), indent \o "  ")
                 ELSE " " \o ScalarText(v) \o "\n")
             \o MarshalEntries(f, Tail(keys), indent)

\* string(encoded) for encoded, _ := yaml.Marshal(manifest)
Marshal(manifest) ==
    IF DOMAIN manifest = {} THEN "{}\n"
    ELSE MarshalEntries(manifest, SortedKeys(manifest), "")

(* --------------------------- helpers ----------------------------------- *)

Range(seq) == {seq[i] : i \in DOMAIN seq}

RECURSIVE SplitFrom(_, _, _)

SplitFrom(chunks, current, parts) ==
    IF chunks = <<>> THEN Append(parts, current)
    ELSE IF Head(chunks) = "."
         THEN SplitFrom(Tail(chunks), "", Append(parts, current))
         ELSE SplitFrom(Tail(chunks), current \o Head(chunks), parts)

\* strings.Split(attribute, ".")
Split(attribute) == SplitFrom(attribute, "", <<>>)

\* a Go slice: nil, or a sequence of elements
NilSlice == [isNil |-> TRUE, elems |-> <<>>]

Slice(elems) == [isNil |-> FALSE, elems |-> elems]

RECURSIVE ParseFrom(_, _, _)

\* parser is the function applied to each element
ParseFrom(elems, parser, parsed) ==
    IF elems = <<>> THEN parsed
    ELSE ParseFrom(Tail(elems), parser, Slice(Append(parsed.elems, parser[Head(elems)])))

\* parseTfList: var parsed []T stays nil when raw has no elements
parseTfList(raw, parser) == ParseFrom(raw, parser, NilSlice)

RECURSIVE contains(_, _)

contains(arr, needle) ==
    IF arr = <<>> THEN FALSE
    ELSE IF Head(arr) = needle THEN TRUE
    ELSE contains(Tail(arr), needle)

RECURSIVE removeAttributeSkip(_, _)

\* a walk that steps over a segment that is not a mapping instead of stopping
removeAttributeSkip(manifest, path) ==
    IF Len(path) = 1
    THEN [k \in DOMAIN manifest \ {path[1]} |-> manifest[k]]
    ELSE IF Lookup(manifest, path[1]).t = "map"
         THEN [manifest EXCEPT ![path[1]] =
                   Map(removeAttributeSkip(manifest[path[1]].m, Tail(path)))]
         ELSE removeAttributeSkip(manifest, Tail(path))

RECURSIVE removeAttribute(_, _)

removeAttribute(manifest, path) ==
    IF Len(path) = 1
    THEN [k \in DOMAIN manifest \ {path[1]} |-> manifest[k]]
    ELSE IF Lookup(manifest, path[1]).t = "map"
         THEN [manifest EXCEPT ![path[1]] =
                   Map(removeAttribute(manifest[path[1]].m, Tail(path)))]
         ELSE manifest

(* --------------------------- inputs ------------------------------------ *)

\* documents a response body can hold
Docs ==
    { [apiVersion |-> Str("v1"), kind |-> Str("Test"), status |-> Str("hello")],
      [apiVersion |-> Str("v1"), kind |-> Str("test"),
       metadata |-> Map([annotations |-> Map([hello |-> Str("world")]),
                         creationTimestamp |-> Nil])],
      [apiVersion |-> Str("v1"), spec |-> Map([some |-> Str("key")])],
      [kind |-> Str("Test"), metadata |-> Str("null")],
      [apiVersion |-> IntVal("1"), kind |-> Nil, status |-> Map(EmptyMap)] }

\* values of filtered_attributes elements
AttributeStrings ==
    { <<"status">>,
      <<"kind">>,
      <<"metadata">>,
      <<"metadata", ".", "creationTimestamp">>,
      <<"metadata", ".", "kind">>,
      <<"metadata", ".", "annotations", ".", "hello">> }

\* values of only_resources
ResourceLists ==
    { <<>>,
      <<"v1/Test">>,
      <<"v1/test", "v1/Test">>,
      <<"v1/<nil>", "V1/TEST", "v1/">>,
      <<"v1/%!s(<nil>)", "%!s(int=1)/%!s(<nil>)">> }

\* values of url; the last one has no scheme and does not parse
URLs == {"http://host/multiple", ":"}

\* url.Parse inside http.NewRequestWithContext
URLParses(u) == u # ":"

StatusCodes == {200, 201, 204, 404, 500}

SeqsUpTo(S, n) == UNION {[1..k -> S] : k \in 0..n}

(* --------------------------- state ------------------------------------- *)

NullState == [set |-> FALSE, id |-> "", manifests |-> <<>>]

Diag(summary, detail) == [summary |-> summary, detail |-> detail]

Init ==
    /\ pc = "Idle"
    /\ url = ""
    /\ filteredAttributes = NilSlice
    /\ onlyResources = NilSlice
    /\ cancelled = FALSE
    /\ statusCode = 0
    /\ stream = <<>>
    /\ decodeErr = ""
    /\ filterableManifests = <<>>
    /\ ti = 1
    /\ tj = 1
    /\ manifests = <<>>
    /\ diags = <<>>
    /\ state = NullState

Fail(summary, detail) ==
    /\ pc' = "Failed"
    /\ diags' = Append(diags, Diag(summary, detail))

\* Read, up to the request: decode the configuration and parse both lists
ReadConfig ==
    /\ pc = "Idle"
    /\ \E u \in URLs, attrs \in SeqsUpTo(AttributeStrings, MaxAttrs), res \in ResourceLists :
          /\ url' = u
          /\ filteredAttributes' = parseTfList(attrs, [a \in Range(attrs) |-> Split(a)])
          /\ onlyResources' =
                 LET parsed == parseTfList(res, [r \in Range(res) |-> r])
                 IN  IF Len(parsed.elems) = 0 THEN NilSlice ELSE parsed
    /\ pc' = "Requesting"
    /\ UNCHANGED <<cancelled, statusCode, stream, decodeErr, filterableManifests, ti, tj,
                   manifests, diags, state>>

\* http.NewRequestWithContext returns an error
NewRequestError ==
    /\ pc = "Requesting"
    /\ ~URLParses(url)
    /\ Fail("Error creating request", "Error creating request: parse: missing protocol scheme")
    /\ UNCHANGED <<url, filteredAttributes, onlyResources, cancelled, statusCode,
                   stream, decodeErr, filterableManifests, ti, tj, manifests, state>>

\* client.Do returns a transport error
DoError ==
    /\ pc = "Requesting"
    /\ URLParses(url)
    /\ Fail("Error making request", "Error making request: connection refused")
    /\ UNCHANGED <<url, filteredAttributes, onlyResources, cancelled, statusCode,
                   stream, decodeErr, filterableManifests, ti, tj, manifests, state>>

\* the context ends while client.Do sends the request or awaits the response
DoCancelled ==
    /\ pc = "Requesting"
    /\ URLParses(url)
    /\ cancelled' = TRUE
    /\ Fail("Error making request", "Error making request: context canceled")
    /\ UNCHANGED <<url, filteredAttributes, onlyResources, statusCode,
                   stream, decodeErr, filterableManifests, ti, tj, manifests, state>>

\* client.Do returns a response
DoResponse ==
    /\ pc = "Requesting"
    /\ URLParses(url)
    /\ \E c \in StatusCodes : statusCode' = c
    /\ pc' = "AwaitingResponse"
    /\ UNCHANGED <<url, filteredAttributes, onlyResources, cancelled,
                   stream, decodeErr, filterableManifests, ti, tj, manifests, diags, state>>

\* a check that accepts every 2xx code
CheckStatus2xx ==
    /\ pc = "AwaitingResponse"
    /\ IF statusCode < 200 \/ statusCode > 299
       THEN Fail("Received non-success response code",
                 "Received non-success response code: " \o ToString(statusCode))
       ELSE pc' = "Decoding" /\ diags' = diags
    /\ UNCHANGED <<url, filteredAttributes, onlyResources, cancelled, statusCode,
                   stream, decodeErr, filterableManifests, ti, tj, manifests, state>>

\* if response.StatusCode != 200
CheckStatus ==
    /\ pc = "AwaitingResponse"
    /\ IF statusCode # 200
       THEN Fail("Received non-success response code",
                 "Received non-success response code: " \o ToString(statusCode))
       ELSE pc' = "Decoding" /\ diags' = diags
    /\ UNCHANGED <<url, filteredAttributes, onlyResources, cancelled, statusCode,
                   stream, decodeErr, filterableManifests, ti, tj, manifests, state>>

\* a decoder that appends every document, whatever allowedResources holds
DecodeKeepAll ==
    /\ pc = "Decoding"
    /\ Len(stream) < MaxDocs
    /\ \E manifest \in Docs :
          /\ stream' = Append(stream, manifest)
          /\ filterableManifests' = Append(filterableManifests, manifest)
    /\ UNCHANGED <<pc, url, filteredAttributes, onlyResources, cancelled, statusCode,
                   decodeErr, ti, tj, manifests, diags, state>>

\* a decoder that puts each kept document in front of the ones before it
DecodePrepend ==
    /\ pc = "Decoding"
    /\ Len(stream) < MaxDocs
    /\ \E manifest \in Docs :
          /\ stream' = Append(stream, manifest)
          /\ filterableManifests' =
                 IF onlyResources.isNil
                    \/ contains(onlyResources.elems, TypeIdentity(manifest))
                 THEN <<manifest>> \o filterableManifests
                 ELSE filterableManifests
    /\ UNCHANGED <<pc, url, filteredAttributes, onlyResources, cancelled, statusCode,
                   decodeErr, ti, tj, manifests, diags, state>>

\* unmarshalAllManifests, one turn of the loop: decoder.Decode returns the
\* next document of the body, which is appended when its type is allowed
Decode ==
    /\ pc = "Decoding"
    /\ Len(stream) < MaxDocs
    /\ \E manifest \in Docs :
          /\ stream' = Append(stream, manifest)
          /\ filterableManifests' =
                 IF onlyResources.isNil
                    \/ contains(onlyResources.elems, TypeIdentity(manifest))
                 THEN Append(filterableManifests, manifest)
                 ELSE filterableManifests
    /\ UNCHANGED <<pc, url, filteredAttributes, onlyResources, cancelled, statusCode,
                   decodeErr, ti, tj, manifests, diags, state>>

\* unmarshalAllManifests: decoder.Decode returns io.EOF, the loop breaks
DecodeEOF ==
    /\ pc = "Decoding"
    /\ decodeErr' = "EOF"
    /\ pc' = "Transforming"
    /\ UNCHANGED <<url, filteredAttributes, onlyResources, cancelled, statusCode,
                   stream, filterableManifests, ti, tj, manifests, diags, state>>

\* a loop that breaks on every error of the decoder, not only on io.EOF
DecodeErrorBreak ==
    /\ pc = "Decoding"
    /\ decodeErr' = "yaml: line 1: mapping values are not allowed in this context"
    /\ pc' = "Transforming"
    /\ UNCHANGED <<url, filteredAttributes, onlyResources, cancelled, statusCode,
                   stream, filterableManifests, ti, tj, manifests, diags, state>>

\* unmarshalAllManifests: the next document fails strict decoding
DecodeError ==
    /\ pc = "Decoding"
    /\ decodeErr' = "yaml: line 1: mapping values are not allowed in this context"
    /\ Fail("Error parsing response body", "Error parsing response body: " \o decodeErr')
    /\ UNCHANGED <<url, filteredAttributes, onlyResources, cancelled, statusCode,
                   stream, filterableManifests, ti, tj, manifests, state>>

\* a loop that takes the error of a cancelled read for the end of the body
DecodeCancelledBreak ==
    /\ pc = "Decoding"
    /\ cancelled' = TRUE
    /\ decodeErr' = "yaml: input error: context canceled"
    /\ pc' = "Transforming"
    /\ UNCHANGED <<url, filteredAttributes, onlyResources, statusCode,
                   stream, filterableManifests, ti, tj, manifests, diags, state>>

\* the context ends while the decoder reads the body: the read fails and
\* decoder.Decode returns the reader's error
DecodeCancelled ==
    /\ pc = "Decoding"
    /\ cancelled' = TRUE
    /\ decodeErr' = "yaml: input error: context canceled"
    /\ Fail("Error parsing response body", "Error parsing response body: " \o decodeErr')
    /\ UNCHANGED <<url, filteredAttributes, onlyResources, statusCode,
                   stream, filterableManifests, ti, tj, manifests, state>>

\* Read, the filtering loops: one call of removeAttribute
Transform ==
    /\ pc = "Transforming"
    /\ ti <= Len(filterableManifests)
    /\ tj <= Len(filteredAttributes.elems)
    /\ filterableManifests' =
           [filterableManifests EXCEPT
               ![ti] = removeAttribute(@, filteredAttributes.elems[tj])]
    /\ IF tj = Len(filteredAttributes.elems)
       THEN ti' = ti + 1 /\ tj' = 1
       ELSE ti' = ti /\ tj' = tj + 1
    /\ UNCHANGED <<pc, url, filteredAttributes, onlyResources, cancelled, statusCode,
                   stream, decodeErr, manifests, diags, state>>

\* Read, the filtering loops are over
TransformDone ==
    /\ pc = "Transforming"
    /\ ti > Len(filterableManifests) \/ Len(filteredAttributes.elems) = 0
    /\ pc' = "Encoding"
    /\ UNCHANGED <<url, filteredAttributes, onlyResources, cancelled, statusCode,
                   stream, decodeErr, filterableManifests, ti, tj, manifests, diags, state>>

\* Read, the encoding loop: one yaml.Marshal and append
Encode ==
    /\ pc = "Encoding"
    /\ Len(manifests) < Len(filterableManifests)
    /\ manifests' = Append(manifests, Marshal(filterableManifests[Len(manifests) + 1]))
    /\ UNCHANGED <<pc, url, filteredAttributes, onlyResources, cancelled, statusCode,
                   stream, decodeErr, filterableManifests, ti, tj, diags, state>>

\* an end that reports the null list of an empty result as an error
FinishRejectEmpty ==
    /\ pc = "Encoding"
    /\ Len(manifests) = Len(filterableManifests)
    /\ IF manifests = <<>>
       THEN /\ Fail("Value Conversion Error", "Value Conversion Error: unhandled null value")
            /\ state' = state
       ELSE /\ state' = [set |-> TRUE, id |-> url, manifests |-> manifests]
            /\ pc' = "Done"
            /\ diags' = diags
    /\ UNCHANGED <<url, filteredAttributes, onlyResources, cancelled, statusCode,
                   stream, decodeErr, filterableManifests, ti, tj, manifests>>

\* Read, the end: the id and the manifests are written to the result state
Finish ==
    /\ pc = "Encoding"
    /\ Len(manifests) = Len(filterableManifests)
    /\ state' = [set |-> TRUE, id |-> url, manifests |-> manifests]
    /\ pc' = "Done"
    /\ UNCHANGED <<url, filteredAttributes, onlyResources, cancelled, statusCode,
                   stream, decodeErr, filterableManifests, ti, tj, manifests, diags>>

Next ==
    \/ ReadConfig
    \/ NewRequestError
    \/ DoError
    \/ DoCancelled
    \/ DoResponse
    \/ CheckStatus
    \/ Decode
    \/ DecodeEOF
    \/ DecodeError
    \/ DecodeCancelled
    \/ Transform
    \/ TransformDone
    \/ Encode
    \/ Finish

Spec == Init /\ [][Next]_vars

\* Read is one sequential call: a step that can be taken is taken
FairSpec == Init /\ [][Next]_vars /\ WF_vars(Next)

TypeOK ==
    /\ pc \in {"Idle", "Requesting", "AwaitingResponse", "Decoding",
               "Transforming", "Encoding", "Done", "Failed"}
    /\ Len(stream) <= MaxDocs
    /\ Len(filterableManifests) <= Len(stream)
    /\ Len(manifests) <= Len(filterableManifests)

(* ------------------- operators used to state the claims ---------------- *)

InList(text) == \E i \in DOMAIN onlyResources.elems : onlyResources.elems[i] = text

NoTypeFilter == Len(onlyResources.elems) = 0

\* the text of one slot of the identity, for a slot that holds a string or nothing
SlotText(manifest, key, missing) ==
    IF key \in DOMAIN manifest THEN manifest[key].s ELSE missing

StringOrAbsent(manifest, key) == key \in DOMAIN manifest => manifest[key].t = "str"

\* "{apiVersion}/{kind}", spelled out where both values are strings
IdentityText(manifest) ==
    IF /\ "apiVersion" \in DOMAIN manifest /\ manifest["apiVersion"].t = "str"
       /\ "kind" \in DOMAIN manifest /\ manifest["kind"].t = "str"
    THEN manifest["apiVersion"].s \o "/" \o manifest["kind"].s
    ELSE TypeIdentity(manifest)

KeepExact(manifest) == NoTypeFilter \/ InList(IdentityText(manifest))

\* the documents of the stream that pass the type filter, in stream order
Surviving == SelectSeq(stream, KeepExact)

RECURSIVE PruneAll(_, _)

PruneAll(manifest, paths) ==
    IF paths = <<>> THEN manifest
    ELSE PruneAll(removeAttribute(manifest, Head(paths)), Tail(paths))

RECURSIVE PathsOf(_)

\* every key path that leads to a value of the record
PathsOf(f) ==
    UNION { {<<k>>} \cup (IF f[k].t = "map"
                           THEN {<<k>> \o r : r \in PathsOf(f[k].m)}
                           ELSE {})
            : k \in DOMAIN f }

RECURSIVE ValueAt(_, _)

ValueAt(f, path) ==
    IF Len(path) = 1 THEN f[path[1]] ELSE ValueAt(f[path[1]].m, Tail(path))

IsPrefix(p, r) == Len(p) <= Len(r) /\ SubSeq(r, 1, Len(p)) = p

\* the terminal key of path is reached through nested mappings only
Resolves(f, path) ==
    /\ path \in PathsOf(f)
    /\ \A n \in 1..(Len(path) - 1) : ValueAt(f, SubSeq(path, 1, n)).t = "map"

\* what one pruning may change: the subtree under path goes, nothing else does
FrameHolds(before, path, after) ==
    IF Resolves(before, path)
    THEN /\ PathsOf(after) = {r \in PathsOf(before) : ~IsPrefix(path, r)}
         /\ \A r \in PathsOf(after) :
               IF IsPrefix(r, path)
               THEN ValueAt(after, r).t = "map" /\ ValueAt(before, r).t = "map"
               ELSE ValueAt(after, r) = ValueAt(before, r)
    ELSE after = before

StatusText ==
    [c \in StatusCodes |->
        CASE c = 200 -> "200" [] c = 201 -> "201" [] c = 204 -> "204"
          [] c = 404 -> "404" [] c = 500 -> "500" [] OTHER -> "?"]

ErrorClasses == {"Error creating request", "Error making request",
                 "Received non-success response code", "Error parsing response body"}

(* ------------------------------ claims --------------------------------- *)

\* C1: every response status other than exactly 200, other 2xx codes
\* included, ends Read in failure with the single diagnostic "Received
\* non-success response code: c"; the body is never decoded and nothing is
\* written to the result state.  With status 200 that diagnostic never appears.
C1_NonSuccessStatus ==
    (statusCode # 0 /\ pc # "AwaitingResponse") =>
        IF statusCode # 200
        THEN /\ pc = "Failed"
             /\ diags = <<Diag("Received non-success response code",
                               "Received non-success response code: "
                                   \o StatusText[statusCode])>>
             /\ stream = <<>> /\ decodeErr = "" /\ filterableManifests = <<>>
             /\ manifests = <<>> /\ state = NullState
        ELSE \A i \in DOMAIN diags :
                 diags[i].summary # "Received non-success response code"

C1_Witness == pc = "Failed" /\ statusCode = 204

\* C2: after a successful decode the manifests written are, in stream order,
\* the encodings of the documents that pass the type filter, each after
\* pruning, none duplicated or reordered; without a type filter there is one
\* output per document of the stream.
C2_OrderPreserved ==
    pc = "Done" =>
        /\ Len(state.manifests) = Len(Surviving)
        /\ \A i \in DOMAIN Surviving :
               state.manifests[i] = Marshal(PruneAll(Surviving[i], filteredAttributes.elems))
        /\ NoTypeFilter => Len(state.manifests) = Len(stream)

C2_Witness ==
    /\ pc = "Done"
    /\ ~NoTypeFilter
    /\ Len(stream) = 2
    /\ Len(state.manifests) = 2
    /\ state.manifests[1] # state.manifests[2]

\* C3: a turn of the decoding loop keeps the document it decoded if and only
\* if there is no type filter (list absent or empty) or the document's
\* "{apiVersion}/{kind}" equals some entry of only_resources exactly; a kept
\* document is appended unchanged and the earlier ones are left as they were.
C3_FilterExact ==
    [][ (pc = "Decoding" /\ Len(stream') = Len(stream) + 1) =>
            LET manifest == stream'[Len(stream')]
            IN  /\ (filterableManifests' # filterableManifests) <=> KeepExact(manifest)
                /\ filterableManifests' \in
                       {filterableManifests, Append(filterableManifests, manifest)} ]_vars

C3_Witness ==
    /\ pc = "Decoding"
    /\ ~NoTypeFilter
    /\ Len(stream) = 2
    /\ Len(filterableManifests) = 1
    /\ IdentityText(stream[1]) = "v1/test"
    /\ IdentityText(stream[2]) = "v1/Test"
    /\ filterableManifests[1] = stream[2]

\* C4 as stated: after a successful Read every output record's identity,
\* computed from the record as it is output (after pruning), is a member of
\* only_resources, for every only_resources and filtered_attributes list.
C4_Original ==
    pc = "Done" =>
        \A i \in DOMAIN filterableManifests : InList(TypeIdentity(filterableManifests[i]))

\* C4 amended: with a non-empty only_resources list and no FieldPath whose
\* first segment is apiVersion or kind, the identity of every record that is
\* encoded, computed on the pruned record, is a member of only_resources.
C4_IdentityInList ==
    ( /\ pc = "Done"
      /\ ~NoTypeFilter
      /\ \A j \in DOMAIN filteredAttributes.elems :
             filteredAttributes.elems[j][1] \notin {"apiVersion", "kind"} ) =>
        \A i \in DOMAIN filterableManifests : InList(TypeIdentity(filterableManifests[i]))

C4_Witness ==
    /\ pc = "Done"
    /\ ~NoTypeFilter
    /\ Len(stream) = 2
    /\ Len(filterableManifests) = 1
    /\ Len(filteredAttributes.elems) = 2
    /\ \A j \in DOMAIN filteredAttributes.elems :
           filteredAttributes.elems[j][1] \notin {"apiVersion", "kind"}
    /\ filterableManifests[1] \notin Docs

\* C5: one call of removeAttribute in the filtering loop changes only the
\* manifest it is given, and in it at most the entry the path names: when the
\* path resolves through nested mappings the terminal key and what is under
\* it go and every other key at every level keeps its value; when a segment
\* is missing or is not a mapping, or the terminal key is absent, the record
\* is unchanged.
C5_PruneFrame ==
    [][ (pc = "Transforming" /\ pc' = "Transforming") =>
            /\ Len(filterableManifests') = Len(filterableManifests)
            /\ \A k \in DOMAIN filterableManifests :
                   IF k = ti
                   THEN FrameHolds(filterableManifests[k],
                                   filteredAttributes.elems[tj],
                                   filterableManifests'[k])
                   ELSE filterableManifests'[k] = filterableManifests[k] ]_vars

C5_Witness ==
    /\ pc = "Transforming"
    /\ ti = 2
    /\ Len(filterableManifests) = 2
    /\ filteredAttributes.elems = <<<<"metadata", "creationTimestamp">>, <<"metadata", "kind">>>>
    /\ Lookup(filterableManifests[1], "metadata").t = "map"
    /\ DOMAIN filterableManifests[1]["metadata"].m = {"annotations"}
    /\ Lookup(filterableManifests[2], "metadata").t = "str"

\* C6: decoding is all-or-nothing.  When a document fails strict decoding,
\* also after documents that were decoded and kept, Read has failed with the
\* single diagnostic "Error parsing response body" and the result state holds
\* no manifests and no id.  The end of the stream is not an error, and an
\* empty stream gives a result with zero manifests.
C6_AllOrNothing ==
    /\ decodeErr \notin {"", "EOF"} =>
           /\ pc = "Failed"
           /\ Len(diags) = 1
           /\ diags[1].summary = "Error parsing response body"
           /\ state = NullState
    /\ decodeErr = "EOF" => (pc # "Failed" /\ diags = <<>>)
    /\ (pc = "Done" /\ stream = <<>>) => (state.set /\ state.manifests = <<>>)

C6_Witness ==
    /\ pc = "Failed"
    /\ ~cancelled
    /\ decodeErr # ""
    /\ Len(filterableManifests) = 2

\* C7 as stated: a document that lacks apiVersion or kind has "<nil>" in the
\* missing slot of its identity, and is kept under a type filter if and only
\* if only_resources holds that text.
C7_Original ==
    (pc = "Decoding" /\ ~NoTypeFilter) =>
        \A i \in DOMAIN stream :
            ( /\ StringOrAbsent(stream[i], "apiVersion")
              /\ StringOrAbsent(stream[i], "kind")
              /\ {"apiVersion", "kind"} \ DOMAIN stream[i] # {} ) =>
                ( stream[i] \in Range(filterableManifests)
                  <=> InList(SlotText(stream[i], "apiVersion", "<nil>") \o "/"
                             \o SlotText(stream[i], "kind", "<nil>")) )

\* C7 amended: the missing slot renders as "%!s(<nil>)": a document with
\* apiVersion "v1" and no kind has identity "v1/%!s(<nil>)" and is kept under
\* a type filter if and only if only_resources holds that text.
C7_MissingSlot ==
    (pc = "Decoding" /\ ~NoTypeFilter) =>
        \A i \in DOMAIN stream :
            ( /\ StringOrAbsent(stream[i], "apiVersion")
              /\ StringOrAbsent(stream[i], "kind")
              /\ {"apiVersion", "kind"} \ DOMAIN stream[i] # {} ) =>
                ( stream[i] \in Range(filterableManifests)
                  <=> InList(SlotText(stream[i], "apiVersion", "%!s(<nil>)") \o "/"
                             \o SlotText(stream[i], "kind", "%!s(<nil>)")) )

C7_Witness ==
    /\ pc = "Decoding"
    /\ InList("v1/%!s(<nil>)")
    /\ Len(filterableManifests) = 1
    /\ "kind" \notin DOMAIN filterableManifests[1]
    /\ Lookup(filterableManifests[1], "apiVersion") = Str("v1")

\* C8 as stated: a context that ends during network I/O ends the run in
\* failure with an error of a cancellation class, distinct from the request,
\* HTTP-status and parse classes, and with no manifests.
C8_Original ==
    cancelled =>
        /\ pc = "Failed"
        /\ diags # <<>>
        /\ diags[Len(diags)].summary \notin ErrorClasses
        /\ state = NullState

\* C8 amended: a context that ends during network I/O ends the run in
\* failure with one diagnostic and no manifests or id; the diagnostic is
\* "Error making request" when the context ends while the request is sent or
\* the response awaited, and "Error parsing response body" when it ends while
\* the body is read, and its detail carries the context's error.
C8_CancelFails ==
    cancelled =>
        /\ pc = "Failed"
        /\ state = NullState
        /\ \/ /\ statusCode = 0
              /\ diags = <<Diag("Error making request",
                                "Error making request: context canceled")>>
           \/ /\ statusCode = 200
              /\ diags = <<Diag("Error parsing response body",
                                "Error parsing response body: yaml: input error: context canceled")>>

C8_Witness ==
    /\ cancelled
    /\ statusCode = 200
    /\ Len(filterableManifests) = 1
    /\ Len(stream) = 2

Lifecycle ==
    {<<"Idle", "Requesting">>, <<"Requesting", "AwaitingResponse">>,
     <<"AwaitingResponse", "Decoding">>, <<"Decoding", "Transforming">>,
     <<"Transforming", "Encoding">>, <<"Encoding", "Done">>,
     <<"Requesting", "Failed">>, <<"AwaitingResponse", "Failed">>,
     <<"Decoding", "Failed">>}

C10_OrderIndependent ==
    /\ \A i \in DOMAIN filterableManifests :
         \A p, q \in Range(filteredAttributes.elems) :
            LET manifest == filterableManifests[i]
            IN  /\ removeAttribute(removeAttribute(manifest, p), q)
                     = removeAttribute(removeAttribute(manifest, q), p)
                /\ removeAttribute(removeAttribute(manifest, p), p)
                     = removeAttribute(manifest, p)
    /\ pc = "Done" =>
         \A i \in DOMAIN filterableManifests :
            \A paths \in SeqsUpTo(Range(filteredAttributes.elems), MaxAttrs + 1) :
               Range(paths) = Range(filteredAttributes.elems) =>
                   filterableManifests[i] = PruneAll(Surviving[i], paths)

C10_Witness ==
    /\ pc = "Done"
    /\ filteredAttributes.elems = <<<<"metadata">>, <<"metadata", "creationTimestamp">>>>
    /\ Len(stream) = 1
    /\ Len(filterableManifests) = 1
    /\ Lookup(stream[1], "metadata").t = "map"
    /\ "metadata" \notin DOMAIN filterableManifests[1]

====
